---- MODULE Spec2Model ----
(***************************************************************************)
(* A model of mloggers: the severity registry (_log_levels.py), the        *)
(* message normaliser (utils.py), the severity filter and validation       *)
(* (logger.py), the three sinks (console_logger.py, file_logger.py,        *)
(* wandb_logger.py) and the fan-out dispatcher (multi_logger.py).          *)
(*                                                                         *)
(* Python values are records [t, s, items]: t is the Python type, s the    *)
(* text str() gives for a scalar, items the elements of a list or the      *)
(* key/value items of a dict (in insertion order).                         *)
(***************************************************************************)
EXTENDS Integers, Sequences, FiniteSets, TLC

VARIABLES
    members,       \* LogLevel: member name -> member value
    props,         \* _log_level_properties: key -> [color, priority]
    objs,          \* the constructed loggers: id -> [kind, loggers, default_mask]
    min_priority,  \* id -> Logger._min_priority
    file,          \* the text of the log file of the FileLogger
    env,           \* what the environment lets the next I/O call do
    stdout,        \* the lines print() wrote during the operation
    tracked,       \* the records wandb.log accepted during the operation
    call,          \* the operation: its inputs, what it raised, what it saw
    hist           \* the calls a FileLogger completed since the file was fresh

vars == <<members, props, objs, min_priority, file, env, stdout, tracked, call, hist>>

-----------------------------------------------------------------------------
(* Bounds of the model. *)

\* The sinks are explored while the array in the file holds fewer entries
\* than this.
MaxPrior == 1

\* The same bound for the specification of the file sink alone.
MaxFilePrior == 2

\* Stand-in for sys.maxsize, the priority of LogLevel.ERROR: larger than
\* every other priority of the model but one (MaxSize + 1).
MaxSize == 4

\* The values serialize is applied to are nested to this depth.
MaxDepth == 2

-----------------------------------------------------------------------------
(* Python values. *)

PyStr(s) == [t |-> "str", s |-> s, items |-> <<>>]
PyInt(s) == [t |-> "int", s |-> s, items |-> <<>>]
PyFloat(s) == [t |-> "float", s |-> s, items |-> <<>>]
PyNone == [t |-> "none", s |-> "None", items |-> <<>>]
PyList(xs) == [t |-> "list", s |-> "", items |-> xs]
PyDict(kvs) == [t |-> "dict", s |-> "", items |-> kvs]
\* An object whose toJSON() raises TypeError.
PyOpaque == [t |-> "opaque", s |-> "<opaque>", items |-> <<>>]
\* One item of a dict: kt is the type of the key ("str" or "tuple").
Item(k, v) == [k |-> k, kt |-> "str", v |-> v]
TupleItem(k, v) == [k |-> k, kt |-> "tuple", v |-> v]

IsDict(v) == v.t = "dict"

RECURSIVE Join(_, _)
\* sep.join(parts)
Join(parts, sep) ==
    IF parts = <<>> THEN ""
    ELSE IF Len(parts) = 1 THEN parts[1]
    ELSE parts[1] \o sep \o Join(Tail(parts), sep)

RECURSIVE Repr(_)
\* repr(v), which str() of a list or a dict applies to the elements.
Repr(v) ==
    CASE v.t = "str" -> "'" \o v.s \o "'"
      [] v.t = "list" ->
            "[" \o Join([i \in 1..Len(v.items) |-> Repr(v.items[i])], ", ") \o "]"
      [] v.t = "dict" ->
            "{" \o Join([i \in 1..Len(v.items) |->
                            (IF v.items[i].kt = "str"
                             THEN "'" \o v.items[i].k \o "'"
                             ELSE v.items[i].k)
                            \o ": " \o Repr(v.items[i].v)], ", ") \o "}"
      [] OTHER -> v.s

\* str(v)
Str(v) == IF v.t = "str" THEN v.s ELSE Repr(v)

\* f"{value:.5f}" for the floats of the model.
Format5f(v) == CASE v.s = "0.5" -> "0.50000" [] OTHER -> v.s \o "00000"

RECURSIVE SerializeRaises(_)
\* Whether serialize(message) raises TypeError: only a conversion method of
\* the value can raise, since every Python object has __str__ and the
\* branches after it are never taken.
SerializeRaises(v) ==
    CASE v.t = "list" -> \E i \in 1..Len(v.items) : SerializeRaises(v.items[i])
      [] v.t = "dict" -> \E i \in 1..Len(v.items) : SerializeRaises(v.items[i].v)
      [] v.t = "opaque" -> TRUE
      [] OTHER -> FALSE

\* The scalar branch with repr(message), which quotes a string.
SerializeLeafRepr(v) == PyStr(Repr(v))

\* The scalar branch of serialize: str(message).
SerializeLeaf(v) == PyStr(Str(v))

RECURSIVE serialize(_)
\* serialize(message) where it does not raise.
serialize(v) ==
    CASE v.t = "list" ->
            PyList([i \in 1..Len(v.items) |-> serialize(v.items[i])])
      [] v.t = "dict" ->
            PyDict([i \in 1..Len(v.items) |->
                      [v.items[i] EXCEPT !.v = serialize(v.items[i].v)]])
      [] OTHER -> SerializeLeaf(v)

-----------------------------------------------------------------------------
(* The severity registry: _log_levels.py. *)

\* A level argument of log(): None, a member of LogLevel, or a string.
NoLevel == [k |-> "none", name |-> ""]
Member(n) == [k |-> "member", name |-> n]
StrLevel(s) == [k |-> "str", name |-> s]

\* A key of the dict _log_level_properties: a member of LogLevel or a str.
\* A member hashes by its name and is equal to itself only, so a str key
\* never answers a lookup by member.
StrKey(s) == [k |-> "str", name |-> s]

Properties(color, priority) == [color |-> color, priority |-> priority]

\* class LogLevel: the built-in members, name -> value.
BuiltinMembers ==
    [n \in {"ERROR", "WARN", "INFO", "DEBUG"} |->
        CASE n = "ERROR" -> "error" [] n = "WARN" -> "warn"
          [] n = "INFO" -> "info" [] n = "DEBUG" -> "debug"]

\* _log_level_properties as the module creates it.
BuiltinProperties ==
    [key \in {Member("ERROR"), Member("WARN"), Member("INFO"), Member("DEBUG")} |->
        CASE key.name = "ERROR" -> Properties("red", MaxSize)
          [] key.name = "WARN" -> Properties("yellow", 1)
          [] key.name = "INFO" -> Properties("cyan", 0)
          [] key.name = "DEBUG" -> Properties("magenta", -1)]

\* str.upper() on the names of the model.
Upper(s) ==
    CASE s \in {"custom", "Custom", "CUSTOM"} -> "CUSTOM"
      [] s \in {"info", "INFO"} -> "INFO"
      [] s \in {"note", "NOTE"} -> "NOTE"
      [] OTHER -> s

\* extend_enum(LogLevel, name, value) raises TypeError when the name is in use.
ExtendEnumRaises(ms, name) == name \in DOMAIN ms

\* extend_enum(LogLevel, name, value) otherwise: the new member.
ExtendEnum(ms, name, value) == (name :> value) @@ ms

\* The key under which register_level stores the properties.
RegisterKey(name) == StrKey(name)

\* _log_level_properties[key] = properties
SetItem(d, key, value) == (key :> value) @@ d

-----------------------------------------------------------------------------
(* Validation and the severity filter: Logger.log, Logger.set_min_priority. *)

\* DEFAULT_IMPORTANCE, read once when logger.py is imported.
DEFAULT_IMPORTANCE == BuiltinProperties[Member("INFO")].priority

\* The second check of Logger.log: a mix of dicts and non-dicts.
\* (The first check never raises: every object has __str__.)
IsMixed(msgs) ==
    /\ \E i \in 1..Len(msgs) : IsDict(msgs[i])
    /\ \E i \in 1..Len(msgs) : ~IsDict(msgs[i])

\* The filter with the comparison <=, which drops a message at the threshold.
BelowOrAt(priority, threshold) == priority <= threshold

\* The comparison of the filter: whether a priority is below the threshold.
Below(priority, threshold) == priority < threshold

\* Logger.log that filters a call without a level like one with a str level.
LoggerLogNoneAsStr(ps, T, msgs, level) ==
    IF IsMixed(msgs) THEN "TypeError"
    ELSE IF level.k = "member"
         THEN IF level \notin DOMAIN ps THEN "KeyError"
              ELSE IF ps[level].priority < T THEN "drop" ELSE "pass"
    ELSE IF DEFAULT_IMPORTANCE < T THEN "drop"
    ELSE "pass"

\* Logger.log with the filter ahead of the validation: a call that is
\* dropped is not validated.
LoggerLogFilterFirst(ps, T, msgs, level) ==
    IF level.k = "member" /\ level \notin DOMAIN ps THEN "KeyError"
    ELSE IF level.k = "member" /\ ps[level].priority < T THEN "drop"
    ELSE IF level.k = "str" /\ DEFAULT_IMPORTANCE < T THEN "drop"
    ELSE IF IsMixed(msgs) THEN "TypeError"
    ELSE "pass"

\* Logger.log: "TypeError", "KeyError", or what it returns: "pass" (True)
\* or "drop" (False).
LoggerLog(ps, T, msgs, level) ==
    IF IsMixed(msgs) THEN "TypeError"
    ELSE IF level.k = "member"
         THEN IF level \notin DOMAIN ps THEN "KeyError"
              ELSE IF Below(ps[level].priority, T) THEN "drop" ELSE "pass"
    ELSE IF level.k = "str" /\ Below(DEFAULT_IMPORTANCE, T) THEN "drop"
    ELSE "pass"

\* The value the constructor and set_min_priority store: an int as it is, a
\* LogLevel by its registered priority.  arg is [int |-> n] or [level |-> l].
IsIntArg(arg) == "int" \in DOMAIN arg
PriorityRaises(ps, arg) == ~IsIntArg(arg) /\ arg.level \notin DOMAIN ps
PriorityOf(ps, arg) == IF IsIntArg(arg) THEN arg.int ELSE ps[arg.level].priority

\* The level name with a string level as it was given.
LevelNameAsGiven(level) == level.name

\* level.name for a member, str(level).upper() for a string.
LevelName(level) == IF level.k = "member" THEN level.name ELSE Upper(level.name)

\* The messages are joined when none of them is a dict.
AllText(msgs) == \A i \in 1..Len(msgs) : ~IsDict(msgs[i])

\* The messages joined with nothing between them.
JoinMessagesBare(msgs) == PyStr(Join([i \in 1..Len(msgs) |-> Str(msgs[i])], ""))

\* " ".join([str(message) for message in messages])
JoinMessages(msgs) == PyStr(Join([i \in 1..Len(msgs) |-> Str(msgs[i])], " "))

-----------------------------------------------------------------------------
(* What the sinks write.  A line of standard output is a record: kind is   *)
(* "log" for a rendered message and "report" for a failure a sink reports; *)
(* tag and color are the arguments of colored(); time is the timestamp     *)
(* column.                                                                 *)

Line(kind, tag, color, time, text) ==
    [kind |-> kind, tag |-> tag, color |-> color, time |-> time, text |-> text]

Report(tag, color, text) == Line("report", tag, color, "", text)

\* datetime.now().strftime("%H:%M:%S") and ("%d/%m/%Y %H:%M:%S"): the clock
\* is not modelled, every reading gives the pattern itself.
ClockTime == "[HH:MM:SS]"
Timestamp == "DD/MM/YYYY HH:MM:SS"

RECURSIVE Spaces(_)
\* " " * n
Spaces(n) == IF n = 0 THEN "" ELSE " " \o Spaces(n - 1)

\* What a log call works on and returns: the file, the lines printed, the
\* records tracked, and the exception that leaves the call ("none" if none).
\* trace lists the calls a MultiLogger forwarded: [by, to, msgs, level].
World(f, out, tr) ==
    [file |-> f, out |-> out, tracked |-> tr, exc |-> "none", trace |-> <<>>]
Raise(w, e) == [w EXCEPT !.exc = e]
PutLine(w, line) == [w EXCEPT !.out = Append(@, line)]

-----------------------------------------------------------------------------
(* ConsoleLogger.log: console_logger.py. *)

LevelStr(level) ==
    IF level.k = "none" THEN "" ELSE "[" \o LevelName(level) \o "] "

LevelColor(ps, level) ==
    IF level.k = "none" THEN ""
    ELSE IF level.k = "member" THEN ps[level].color
    ELSE "green"

RECURSIVE DictLines(_, _, _, _)
\* The loop over the items of a dict message: one line per key, the prefix
\* blanked from the second printed line on.
DictLines(items, tag, color, first) ==
    IF items = <<>> THEN <<>>
    ELSE LET it == Head(items)
             t == IF first THEN ClockTime ELSE Spaces(Len(ClockTime))
             lt == IF first THEN tag ELSE Spaces(Len(tag))
             lc == IF first THEN color ELSE ""
         IN  IF it.v.t = "float"
             THEN <<Line("log", lt, lc, t, it.k \o ": " \o Format5f(it.v))>>
                  \o DictLines(Tail(items), tag, color, FALSE)
             ELSE IF it.v.t = "none"
             THEN <<Line("log", lt, lc, t, it.k)>>
                  \o DictLines(Tail(items), tag, color, FALSE)
             ELSE IF SerializeRaises(it.v)
             THEN <<Report("[ERROR]", "red",
                      "[ConsoleLogger] Could not convert the message to a JSON serializable format")>>
                  \o DictLines(Tail(items), tag, color, first)
             ELSE <<Line("log", lt, lc, t, it.k \o ": " \o Str(serialize(it.v)))>>
                  \o DictLines(Tail(items), tag, color, FALSE)

\* The lines ConsoleLogger.log prints for one message.
ConsoleRender(ps, m, level) ==
    IF IsDict(m)
    THEN DictLines(m.items, LevelStr(level), LevelColor(ps, level), TRUE)
    ELSE <<Line("log", LevelStr(level), LevelColor(ps, level), ClockTime, Str(m))>>

RECURSIVE ConsoleLog(_, _, _, _, _)
RECURSIVE ConsoleEach(_, _, _, _, _)

\* ConsoleLogger.log
ConsoleLog(ps, T, w, msgs, level) ==
    LET r == LoggerLog(ps, T, msgs, level) IN
    IF r \in {"TypeError", "KeyError"} THEN Raise(w, r)
    ELSE IF r = "drop" THEN w
    ELSE IF Len(msgs) > 1
         THEN IF AllText(msgs)
              THEN [w EXCEPT !.out = @ \o ConsoleRender(ps, JoinMessages(msgs), level)]
              ELSE ConsoleEach(ps, T, w, msgs, level)
    ELSE IF Len(msgs) = 0 THEN Raise(w, "IndexError")
    ELSE [w EXCEPT !.out = @ \o ConsoleRender(ps, msgs[1], level)]

\* for message in messages: self.log(message, level=level)
ConsoleEach(ps, T, w, msgs, level) ==
    IF msgs = <<>> \/ w.exc # "none" THEN w
    ELSE ConsoleEach(ps, T, ConsoleLog(ps, T, w, <<Head(msgs)>>, level),
                     Tail(msgs), level)

-----------------------------------------------------------------------------
(* WandbLogger.log: wandb_logger.py. *)

\* The record handed to wandb.log for one message.
WandbRecord(m, level) ==
    IF IsDict(m) THEN m
    ELSE IF level.k # "none"
         THEN PyDict(<<Item(LevelName(level), PyStr(Str(m)))>>)
         ELSE PyDict(<<Item("message", PyStr(Str(m)))>>)

\* try: wandb.log(log) except Exception: print(...)
WandbSend(w, e, rec) ==
    IF e = "wandb_down"
    THEN PutLine(w, Report("[ERROR]", "red", "[WandbLogger] Error while logging to wandb"))
    ELSE [w EXCEPT !.tracked = Append(@, rec)]

RECURSIVE WandbLog(_, _, _, _, _, _)
RECURSIVE WandbEach(_, _, _, _, _, _)

\* WandbLogger.log
WandbLog(ps, T, w, e, msgs, level) ==
    LET r == LoggerLog(ps, T, msgs, level) IN
    IF r \in {"TypeError", "KeyError"} THEN Raise(w, r)
    ELSE IF r = "drop" THEN w
    ELSE IF Len(msgs) > 1
         THEN IF AllText(msgs)
              THEN WandbSend(w, e, WandbRecord(JoinMessages(msgs), level))
              ELSE WandbEach(ps, T, w, e, msgs, level)
    ELSE IF Len(msgs) = 0 THEN Raise(w, "IndexError")
    ELSE WandbSend(w, e, WandbRecord(msgs[1], level))

\* for message in messages: self.log(message, level=level)
WandbEach(ps, T, w, e, msgs, level) ==
    IF msgs = <<>> \/ w.exc # "none" THEN w
    ELSE WandbEach(ps, T, WandbLog(ps, T, w, e, <<Head(msgs)>>, level), e,
                   Tail(msgs), level)

-----------------------------------------------------------------------------
(* The log file and the json module.  A JSON document is a record          *)
(* [t, s, items] with the JSON types; the text of the file is [kind, doc]: *)
(*   "json"     the text json.dump(doc, indent=4) writes                   *)
(*   "compact"  another layout of the same document                       *)
(*   "empty"    the empty string        "space"    whitespace only         *)
(*   "garbage"  text that is not JSON   "partial"  a cut-off JSON text     *)
(*   "missing"  there is no file                                           *)

NoDoc == [t |-> "nothing", s |-> "", items |-> <<>>]
Text(kind, doc) == [kind |-> kind, doc |-> doc]

RECURSIVE JsonEncodable(_)
\* Whether json.dump accepts the value: keys must be str (or numbers, bool,
\* None), the leaves JSON scalars.
JsonEncodable(v) ==
    CASE v.t = "list" -> \A i \in 1..Len(v.items) : JsonEncodable(v.items[i])
      [] v.t = "dict" -> \A i \in 1..Len(v.items) :
                            v.items[i].kt = "str" /\ JsonEncodable(v.items[i].v)
      [] v.t = "opaque" -> FALSE
      [] OTHER -> TRUE

RECURSIVE JsonEncode(_)
\* The document json.dump writes for a Python value.
JsonEncode(v) ==
    CASE v.t = "str" -> [t |-> "string", s |-> v.s, items |-> <<>>]
      [] v.t = "int" -> [t |-> "integer", s |-> v.s, items |-> <<>>]
      [] v.t = "float" -> [t |-> "real", s |-> v.s, items |-> <<>>]
      [] v.t = "none" -> [t |-> "null", s |-> "null", items |-> <<>>]
      [] v.t = "list" ->
            [t |-> "array", s |-> "",
             items |-> [i \in 1..Len(v.items) |-> JsonEncode(v.items[i])]]
      [] v.t = "dict" ->
            [t |-> "object", s |-> "",
             items |-> [i \in 1..Len(v.items) |->
                          [v.items[i] EXCEPT !.v = JsonEncode(v.items[i].v)]]]

RECURSIVE JsonDecode(_)
\* The Python value json.load reads from a document.
JsonDecode(j) ==
    CASE j.t = "string" -> PyStr(j.s)
      [] j.t = "integer" -> PyInt(j.s)
      [] j.t = "real" -> PyFloat(j.s)
      [] j.t = "null" -> PyNone
      [] j.t = "array" -> PyList([i \in 1..Len(j.items) |-> JsonDecode(j.items[i])])
      [] j.t = "object" ->
            PyDict([i \in 1..Len(j.items) |->
                      [j.items[i] EXCEPT !.v = JsonDecode(j.items[i].v)]])

\* json.dump(value, file, indent=4) into the opened, truncated file.
JsonDump(v) == Text("json", JsonEncode(v))

-----------------------------------------------------------------------------
(* FileLogger.log: file_logger.py. *)

\* open(path, "r") or file.read() raises.
ReadRaises(f, e) == e = "noread" \/ f.kind = "missing"

\* existing_content == "" or existing_content.isspace() or == "[]"
IsBlank(f) ==
    \/ f.kind \in {"empty", "space"}
    \/ f.kind = "json" /\ f.doc = JsonEncode(PyList(<<>>))

\* json.load raises JSONDecodeError.
DecodeFails(f) == f.kind \in {"garbage", "partial"}

\* prev_logs after the read phase.
PrevLogs(f) == IF IsBlank(f) THEN PyList(<<>>) ELSE JsonDecode(f.doc)

\* prev_logs.copy() exists for a list and for a dict only.
HasCopy(v) == v.t \in {"list", "dict"}

\* The dict FileLogger.log appends.
LogEntry(level, message) ==
    PyDict(<<Item("timestamp", PyStr(Timestamp))>>
           \o (IF level.k # "none"
               THEN <<Item("level", PyStr(LevelName(level)))>> ELSE <<>>)
           \o <<Item("message", message)>>)

\* with open(path, "w") as file: json.dump(value, file, indent=4)
\* The text left in the file and whether the block completed: open raises
\* and leaves the file alone; a dump that raises leaves a cut-off text.
WriteFile(f, e, v) ==
    IF e = "nowrite" THEN [file |-> f, ok |-> FALSE]
    ELSE IF e = "full" \/ ~JsonEncodable(v)
         THEN [file |-> Text("partial", NoDoc), ok |-> FALSE]
    ELSE [file |-> JsonDump(v), ok |-> TRUE]

\* The except branch of the write step: report, then write prev_logs back.
Rollback(w, e, prev) ==
    LET w1 == PutLine(w, Report("[ERROR]", "red",
                  "[FileLogger] Exception thrown while logging to a file"))
        rb == WriteFile(w1.file, e, prev)
    IN  IF rb.ok THEN [w1 EXCEPT !.file = rb.file]
        ELSE PutLine([w1 EXCEPT !.file = rb.file],
                     Report("[ERROR]", "red",
                       "[FileLogger] Exception thrown while rolling back the changes"))

\* The write step without the rollback: a failure is reported and the file
\* is left as the failed write left it.
WriteStepKeeps(w, e, prev, entry) ==
    LET wr == IF prev.t # "list" THEN [file |-> w.file, ok |-> FALSE]
              ELSE WriteFile(w.file, e, PyList(Append(prev.items, entry)))
    IN  IF wr.ok THEN [w EXCEPT !.file = wr.file]
        ELSE PutLine([w EXCEPT !.file = wr.file],
                     Report("[ERROR]", "red",
                       "[FileLogger] Exception thrown while logging to a file"))

\* The write step: append the entry to a copy and rewrite the file.
WriteStep(w, e, prev, entry) ==
    IF prev.t # "list" THEN Rollback(w, e, prev)
    ELSE LET wr == WriteFile(w.file, e, PyList(Append(prev.items, entry)))
         IN  IF wr.ok THEN [w EXCEPT !.file = wr.file]
             ELSE Rollback([w EXCEPT !.file = wr.file], e, prev)

\* FileLogger.log for one message if a file that cannot be decoded were
\* replaced by an array of the new entry.
FileAppendOverwrites(w, e, m, level) ==
    IF SerializeRaises(m)
    THEN PutLine(w, Report("[ERROR]", "red",
           "[FileLogger] Could not convert the message to a JSON serializable format"))
    ELSE IF ReadRaises(w.file, e)
    THEN PutLine(w, Report("[ERROR]", "red",
           "[FileLogger] Exception thrown while reading from the logging file"))
    ELSE IF ~IsBlank(w.file) /\ DecodeFails(w.file)
    THEN WriteStep(PutLine(w, Report("[WARNING]", "yellow",
           "[FileLogger] Could not decode existing logs, new logs will not be appended to the file.")),
           e, PyList(<<>>), LogEntry(level, serialize(m)))
    ELSE LET prev == PrevLogs(w.file) IN
         IF ~HasCopy(prev) THEN Raise(w, "AttributeError")
         ELSE WriteStep(w, e, prev, LogEntry(level, serialize(m)))

\* FileLogger.log from "JSON-serialize the message" on, for one message.
FileAppend(w, e, m, level) ==
    IF SerializeRaises(m)
    THEN PutLine(w, Report("[ERROR]", "red",
           "[FileLogger] Could not convert the message to a JSON serializable format"))
    ELSE IF ReadRaises(w.file, e)
    THEN PutLine(w, Report("[ERROR]", "red",
           "[FileLogger] Exception thrown while reading from the logging file"))
    ELSE IF ~IsBlank(w.file) /\ DecodeFails(w.file)
    THEN PutLine(w, Report("[WARNING]", "yellow",
           "[FileLogger] Could not decode existing logs, new logs will not be appended to the file."))
    ELSE LET prev == PrevLogs(w.file) IN
         IF ~HasCopy(prev) THEN Raise(w, "AttributeError")
         ELSE WriteStep(w, e, prev, LogEntry(level, serialize(m)))

RECURSIVE FileLog(_, _, _, _, _, _)
RECURSIVE FileEach(_, _, _, _, _, _)

\* FileLogger.log
FileLog(ps, T, w, e, msgs, level) ==
    LET r == LoggerLog(ps, T, msgs, level) IN
    IF r \in {"TypeError", "KeyError"} THEN Raise(w, r)
    ELSE IF r = "drop" THEN w
    ELSE IF Len(msgs) > 1
         THEN IF AllText(msgs)
              THEN FileAppend(w, e, JoinMessages(msgs), level)
              ELSE FileEach(ps, T, w, e, msgs, level)
    ELSE IF Len(msgs) = 0 THEN Raise(w, "IndexError")
    ELSE FileAppend(w, e, msgs[1], level)

\* for message in messages: self.log(message, level=level)
FileEach(ps, T, w, e, msgs, level) ==
    IF msgs = <<>> \/ w.exc # "none" THEN w
    ELSE FileEach(ps, T, FileLog(ps, T, w, e, <<Head(msgs)>>, level), e,
                  Tail(msgs), level)

-----------------------------------------------------------------------------
(* MultiLogger: multi_logger.py.  objs maps the id of a logger to          *)
(* [kind, loggers, default_mask]; kind is the class of the logger.         *)

Obj(kind, loggers, default_mask) ==
    [kind |-> kind, loggers |-> loggers, default_mask |-> default_mask]

\* isinstance(logger, type): the class itself or the base class Logger.
IsInstance(kind, type) == type = kind \/ type = "Logger"

\* The mask argument of MultiLogger.log: None, or a list of classes.
NoMask == [none |-> TRUE, types |-> {}]
Mask(types) == [none |-> FALSE, types |-> types]

\* if mask is None: mask = self._default_mask
EffectiveMask(o, mask) == IF mask.none THEN o.default_mask ELSE mask.types

\* [logger for logger in self._loggers
\*  if not any(isinstance(logger, type) for type in mask)]
Targets(os, id, eff) ==
    SelectSeq(os[id].loggers,
              LAMBDA c : ~\E t \in eff : IsInstance(os[c].kind, t))

\* Whether the loop of MultiLogger.log goes on to the next logger: it has
\* no try/except, so an exception of a logger ends the call.
GoesOn(w) == w.exc = "none"

RECURSIVE Invoke(_, _, _, _, _, _, _, _, _)
RECURSIVE MultiEach(_, _, _, _, _, _, _, _, _)

\* logger.log(*messages, level=level, mask=mask) by the class of the logger.
\* A sink takes mask as one of its **kwargs and ignores it.
Invoke(os, ps, mp, id, w, e, msgs, level, mask) ==
    CASE os[id].kind = "ConsoleLogger" -> ConsoleLog(ps, mp[id], w, msgs, level)
      [] os[id].kind = "FileLogger" -> FileLog(ps, mp[id], w, e, msgs, level)
      [] os[id].kind = "WandbLogger" -> WandbLog(ps, mp[id], w, e, msgs, level)
      [] os[id].kind = "MultiLogger" ->
            MultiEach(os, ps, mp, id, w, e,
                      Targets(os, id, EffectiveMask(os[id], mask)), msgs, level)

\* for logger in [...]: logger(*messages, level=level, **kwargs)
\* Logger.__call__ is log; the mask is not among the kwargs passed on.
MultiEach(os, ps, mp, id, w, e, targets, msgs, level) ==
    IF targets = <<>> THEN w
    ELSE LET c == Head(targets)
             w1 == [w EXCEPT !.trace =
                       Append(@, [by |-> id, to |-> c, msgs |-> msgs, level |-> level])]
             w2 == Invoke(os, ps, mp, c, w1, e, msgs, level, NoMask)
         IN  IF GoesOn(w2)
             THEN MultiEach(os, ps, mp, id, w2, e, Tail(targets), msgs, level)
             ELSE w2

\* set_min_priority that stores the priority of the logger itself only.
SetPriorityOwn(os, ps, mp, id, arg) ==
    IF PriorityRaises(ps, arg) THEN [mp |-> mp, exc |-> "KeyError"]
    ELSE [mp |-> [mp EXCEPT ![id] = PriorityOf(ps, arg)], exc |-> "none"]

RECURSIVE SetPriority(_, _, _, _, _)
RECURSIVE SetEach(_, _, _, _, _)

\* logger.set_min_priority(arg): [mp, exc].  Logger.set_min_priority stores
\* the priority; MultiLogger.set_min_priority then passes the same argument
\* to each of its loggers.
SetPriority(os, ps, mp, id, arg) ==
    IF PriorityRaises(ps, arg) THEN [mp |-> mp, exc |-> "KeyError"]
    ELSE LET own == [mp EXCEPT ![id] = PriorityOf(ps, arg)] IN
         IF os[id].kind = "MultiLogger"
         THEN SetEach(os, ps, own, os[id].loggers, arg)
         ELSE [mp |-> own, exc |-> "none"]

SetEach(os, ps, mp, ids, arg) ==
    IF ids = <<>> THEN [mp |-> mp, exc |-> "none"]
    ELSE LET r == SetPriority(os, ps, mp, Head(ids), arg) IN
         IF r.exc # "none" THEN r
         ELSE SetEach(os, ps, r.mp, Tail(ids), arg)

\* MultiLogger.__init__: Logger.__init__ stores the priority, then every
\* logger of the list is given self._min_priority (an int).
MultiInit(os, ps, mp, id, default_priority) ==
    LET own == [mp EXCEPT ![id] = PriorityOf(ps, default_priority)] IN
    SetEach(os, ps, own, os[id].loggers, [int |-> own[id]]).mp

-----------------------------------------------------------------------------
(* The values, levels and environments the operations are tried with. *)

TextA == PyStr("a")
IntOne == PyInt("1")
\* {"title": None, "loss": 0.5}
HeaderDict == PyDict(<<Item("title", PyNone), Item("loss", PyFloat("0.5"))>>)
\* {"k": "v"}
PlainDict == PyDict(<<Item("k", PyStr("v"))>>)
EmptyDict == PyDict(<<>>)
\* {(1, 2): "v"}: a dict json.dump refuses.
TupleKeyDict == PyDict(<<TupleItem("(1, 2)", PyStr("v"))>>)

\* {"obj": x} where x.toJSON() raises TypeError: serialize raises.
OpaqueDict == PyDict(<<Item("obj", PyOpaque)>>)

\* The message tuples tried: none, each value alone, and some pairs.
Tuples(values, pairs) == {<<>>} \cup {<<x>> : x \in values} \cup pairs

BuiltinLevels == {Member(n) : n \in DOMAIN BuiltinMembers}

\* The thresholds tried: the built-in priorities and one above them all.
Thresholds == {-1, 0, 1, MaxSize, MaxSize + 1}

\* The arguments of the constructors and of set_min_priority.
PriorityArgs(levels) ==
    {[int |-> n] : n \in Thresholds} \cup {[level |-> l] : l \in levels}

\* The environment: "ok", or the one thing that fails.
\*   "noread"   open(path, "r") raises     "nowrite"  open(path, "w") raises
\*   "full"     json.dump raises after the file was truncated
\*   "wandb_down"  wandb.log raises
Envs == {"ok", "noread", "nowrite", "full", "wandb_down"}

\* An array of entries as a text another program left in the file.
OneEntry == PyList(<<LogEntry(Member("INFO"), PyStr("old"))>>)

\* What the file can hold when a FileLogger is constructed on it:
\* __init__ writes "" when there is no file and keeps any file there is.
FreshFile == Text("empty", NoDoc)
PriorFiles ==
    { FreshFile, Text("space", NoDoc), Text("garbage", NoDoc),
      JsonDump(PyList(<<>>)), JsonDump(OneEntry),
      Text("compact", JsonEncode(OneEntry)),
      JsonDump(PyInt("5")), JsonDump(PyDict(<<>>)) }

\* The entries of the array in the file (none where there is no array).
Entries(f) ==
    IF f.kind \in {"json", "compact"} /\ f.doc.t = "array"
    THEN JsonDecode(f.doc).items ELSE <<>>

-----------------------------------------------------------------------------
(* The operations. *)

\* call while no operation is under way: the calls are made one at a time,
\* and call keeps an operation and its outcome until the caller goes on.
Idle == [op |-> "idle"]

\* hist: clean, the file was fresh and every call since stored its message or
\* was dropped; entries, the messages stored since; direct, a logger that a
\* MultiLogger owns was given a threshold by a call of its own.
NoHist(f) == [clean |-> f = FreshFile, entries |-> <<>>, direct |-> FALSE]

\* Whether some MultiLogger holds the logger in its list.
Owned(id) ==
    \E m \in DOMAIN objs : \E i \in 1..Len(objs[m].loggers) : objs[m].loggers[i] = id

\* hist after a log call: a call a FileLogger drops leaves it alone, a
\* single message it stores is added, anything else ends the clean run.
HistAfter(id, msgs, level, w) ==
    IF objs[id].kind # "FileLogger" \/ ~hist.clean THEN hist
    ELSE IF LoggerLog(props, min_priority[id], msgs, level) = "drop" THEN hist
    ELSE IF Len(msgs) = 1 /\ w.exc = "none" /\ w.out = <<>>
         THEN [hist EXCEPT !.entries = Append(@, [msg |-> msgs[1], level |-> level])]
    ELSE [hist EXCEPT !.clean = FALSE]

\* logger.log(*msgs, level=level, mask=mask) on the logger id.
Log(id, msgs, level, mask) ==
    LET w == Invoke(objs, props, min_priority, id, World(file, <<>>, <<>>),
                    env, msgs, level, mask)
    IN  /\ call = Idle
        /\ file' = w.file
        /\ stdout' = w.out
        /\ tracked' = w.tracked
        /\ call' = [op |-> "log", id |-> id, msgs |-> msgs, level |-> level,
                    mask |-> mask, exc |-> w.exc, before |-> file,
                    trace |-> w.trace]
        /\ hist' = HistAfter(id, msgs, level, w)
        /\ UNCHANGED <<members, props, objs, min_priority, env>>

\* logger.set_min_priority(arg) on the logger id.
SetMinPriority(id, arg) ==
    LET r == SetPriority(objs, props, min_priority, id, arg)
    IN  /\ call = Idle
        /\ min_priority' = r.mp
        /\ stdout' = <<>>
        /\ tracked' = <<>>
        /\ call' = [op |-> "set_min_priority", id |-> id, arg |-> arg, exc |-> r.exc]
        /\ hist' = IF Owned(id) THEN [hist EXCEPT !.direct = TRUE] ELSE hist
        /\ UNCHANGED <<members, props, objs, file, env>>

\* register_level(name, properties)
RegisterLevel(name, properties) ==
    /\ call = Idle
    /\ IF ExtendEnumRaises(members, Upper(name))
       THEN /\ UNCHANGED <<members, props>>
            /\ call' = [op |-> "register_level", name |-> name,
                        properties |-> properties, exc |-> "TypeError"]
       ELSE /\ members' = ExtendEnum(members, Upper(name), name)
            /\ props' = SetItem(props, RegisterKey(name), properties)
            /\ call' = [op |-> "register_level", name |-> name,
                        properties |-> properties, exc |-> "none"]
    /\ stdout' = <<>>
    /\ tracked' = <<>>
    /\ UNCHANGED <<objs, min_priority, file, env, hist>>

\* The environment changes between two operations.
EnvChange(e) ==
    /\ call = Idle
    /\ e # env
    /\ env' = e
    /\ UNCHANGED <<members, props, objs, min_priority, file, stdout, tracked, call, hist>>

\* The caller goes on after an operation; what the operation printed and
\* tracked has been seen.
Return ==
    /\ call # Idle
    /\ call' = Idle
    /\ stdout' = <<>>
    /\ tracked' = <<>>
    /\ UNCHANGED <<members, props, objs, min_priority, file, env, hist>>

-----------------------------------------------------------------------------
(* The sinks, each on its own: Spec. *)

SinkKinds == {"ConsoleLogger", "FileLogger", "WandbLogger"}

\* FileLogger.__init__ prints where it logs to.
CtorOutput(kind) ==
    IF kind = "FileLogger"
    THEN <<Report("[INFO]", "cyan", "[FileLogger] Logging to file")>>
    ELSE <<>>

\* The state after one sink was constructed with default_priority = arg on
\* a file that holds f.
SinkInit(kind, arg, f) ==
    /\ members = BuiltinMembers
    /\ props = BuiltinProperties
    /\ objs = ("sink" :> Obj(kind, <<>>, {}))
    /\ min_priority = ("sink" :> PriorityOf(BuiltinProperties, arg))
    /\ file = f
    /\ env = "ok"
    /\ stdout = CtorOutput(kind)
    /\ tracked = <<>>
    /\ call = Idle
    /\ hist = NoHist(f)

\* The callers log while the array in the file has fewer than cap entries.
FileCap(cap) == Len(Entries(file)) < cap

SinkValues == {TextA, IntOne, HeaderDict, EmptyDict}
\* Pairs of texts, pairs of dicts, and mixed pairs.
SinkPairs ==
    { <<TextA, IntOne>>, <<HeaderDict, PlainDict>>, <<EmptyDict, HeaderDict>>,
      <<TextA, HeaderDict>>, <<EmptyDict, IntOne>> }
SinkLevels == {NoLevel, StrLevel("note")} \cup BuiltinLevels

\* The files the sinks are tried on.
SinkFiles == {FreshFile, Text("garbage", NoDoc), JsonDump(PyList(<<>>)), JsonDump(OneEntry)}
SinkEnvs == {"ok", "nowrite", "wandb_down"}

Init ==
    \E kind \in SinkKinds, arg \in PriorityArgs(BuiltinLevels) :
        \E f \in (IF kind = "FileLogger" THEN SinkFiles ELSE {FreshFile}) :
            SinkInit(kind, arg, f)

SinkLogs ==
    /\ FileCap(MaxPrior)
    /\ \E msgs \in Tuples(SinkValues, SinkPairs), level \in SinkLevels :
            Log("sink", msgs, level, NoMask)

SinkSets ==
    /\ FileCap(MaxPrior)
    /\ \E arg \in PriorityArgs(BuiltinLevels) : SetMinPriority("sink", arg)

SinkEnvChanges == FileCap(MaxPrior) /\ \E e \in SinkEnvs : EnvChange(e)

Next == SinkLogs \/ SinkSets \/ SinkEnvChanges \/ Return

Spec == Init /\ [][Next]_vars

-----------------------------------------------------------------------------
(* The file sink and its file: SpecFile. *)

FileValues == {TextA, IntOne, HeaderDict, TupleKeyDict, OpaqueDict}
FilePairs ==
    { <<TextA, IntOne>>, <<HeaderDict, PlainDict>>, <<PlainDict, TupleKeyDict>>,
      <<TupleKeyDict, PlainDict>>, <<TextA, HeaderDict>> }
FileLevels == {NoLevel, StrLevel("note"), Member("INFO"), Member("DEBUG")}

\* FileLogger(path): default_priority is LogLevel.INFO.
InitFile ==
    \E f \in PriorFiles : SinkInit("FileLogger", [level |-> Member("INFO")], f)

FileLogs ==
    /\ FileCap(MaxFilePrior)
    /\ \E msgs \in Tuples(FileValues, FilePairs), level \in FileLevels :
            Log("sink", msgs, level, NoMask)

FileEnvChanges == FileCap(MaxFilePrior) /\ \E e \in Envs : EnvChange(e)

NextFile == FileLogs \/ FileEnvChanges \/ Return

SpecFile == InitFile /\ [][NextFile]_vars

-----------------------------------------------------------------------------
(* The registry and a sink: SpecRegistry. *)

RegistryNames == {"custom", "Custom", "CUSTOM", "info", "note"}
RegistryProperties ==
    {Properties("blue", 2), Properties("grey", -2), Properties("white", MaxSize + 1)}
RegistryValues == {TextA, PlainDict}

\* The members of LogLevel there are to pass as a level.
MemberLevels == {Member(n) : n \in DOMAIN members}

InitRegistry ==
    \E kind \in SinkKinds :
        SinkInit(kind, [level |-> Member("INFO")], FreshFile)

Registers ==
    /\ FileCap(MaxPrior)
    /\ \E name \in RegistryNames, properties \in RegistryProperties :
            RegisterLevel(name, properties)

RegistryLogs ==
    /\ FileCap(MaxPrior)
    /\ \E msgs \in {<<x>> : x \in RegistryValues}, level \in {NoLevel} \cup MemberLevels :
            Log("sink", msgs, level, NoMask)

RegistrySets ==
    /\ FileCap(MaxPrior)
    /\ \E arg \in PriorityArgs(MemberLevels) : SetMinPriority("sink", arg)

NextRegistry == Registers \/ RegistryLogs \/ RegistrySets \/ Return

SpecRegistry == InitRegistry /\ [][NextRegistry]_vars

-----------------------------------------------------------------------------
(* A MultiLogger over the sinks and a nested MultiLogger: SpecMulti. *)

\* The lists of loggers the root MultiLogger is built on.
RootLists ==
    { <<"console", "file">>, <<"file", "console">>,
      <<"console", "inner", "file">>, <<"inner", "file", "console">> }
RootMasks == {{}, {"ConsoleLogger"}}
InnerMasks == {{}, {"WandbLogger"}}

\* The thresholds the sinks and the nested MultiLogger are created with.
CreatedWith == [{"console", "file", "wandb", "inner"} -> {-1, MaxSize}]

MultiFiles == {FreshFile, JsonDump(PyInt("5"))}

\* The loggers of SpecMulti: root = MultiLogger(loggers, default_mask),
\* inner = MultiLogger([wandb], inner_mask).
MultiObjs(loggers, default_mask, inner_mask) ==
    [id \in {"console", "file", "wandb", "inner", "root"} |->
        CASE id = "console" -> Obj("ConsoleLogger", <<>>, {})
          [] id = "file" -> Obj("FileLogger", <<>>, {})
          [] id = "wandb" -> Obj("WandbLogger", <<>>, {})
          [] id = "inner" -> Obj("MultiLogger", <<"wandb">>, inner_mask)
          [] id = "root" -> Obj("MultiLogger", loggers, default_mask)]

\* The thresholds after the sinks, then inner, then root were constructed.
MultiThresholds(os, created, arg) ==
    LET sinks == [id \in DOMAIN os |-> IF id = "root" THEN 0 ELSE created[id]]
        inner == MultiInit(os, BuiltinProperties, sinks, "inner",
                           [int |-> created["inner"]])
    IN  MultiInit(os, BuiltinProperties, inner, "root", arg)

InitMulti ==
    \E loggers \in RootLists, dm \in RootMasks, im \in InnerMasks,
       created \in CreatedWith, f \in MultiFiles,
       arg \in {[level |-> Member("INFO")], [int |-> 1]} :
        /\ members = BuiltinMembers
        /\ props = BuiltinProperties
        /\ objs = MultiObjs(loggers, dm, im)
        /\ min_priority = MultiThresholds(objs, created, arg)
        /\ file = f
        /\ env = "ok"
        /\ stdout = CtorOutput("FileLogger")
        /\ tracked = <<>>
        /\ call = Idle
        /\ hist = NoHist(f)

MultiMessages == {<<TextA>>, <<PlainDict>>, <<TextA, PlainDict>>, <<PlainDict, PlainDict>>}
MultiMasks ==
    { NoMask, Mask({}), Mask({"ConsoleLogger"}), Mask({"FileLogger"}),
      Mask({"MultiLogger"}), Mask({"ConsoleLogger", "FileLogger"}), Mask({"Logger"}) }

MultiLogs ==
    /\ FileCap(MaxPrior)
    /\ \E msgs \in MultiMessages, level \in {NoLevel, Member("INFO"), Member("DEBUG")}, mask \in MultiMasks :
            Log("root", msgs, level, mask)

MultiSets ==
    /\ FileCap(MaxPrior)
    /\ \E arg \in {[int |-> -1], [int |-> 1], [level |-> Member("ERROR")],
                   [level |-> Member("INFO")]} :
            SetMinPriority("root", arg)

\* A logger the root owns is given a threshold by a call of its own.
DirectSets ==
    /\ FileCap(MaxPrior)
    /\ \E id \in {"console", "inner"}, arg \in {[int |-> -1], [level |-> Member("WARN")]} :
            SetMinPriority(id, arg)

NextMulti == MultiLogs \/ MultiSets \/ DirectSets \/ Return

SpecMulti == InitMulti /\ [][NextMulti]_vars

-----------------------------------------------------------------------------
(* What the caller and a reader of the outputs see of a finished call. *)

IsLog == call.op = "log"
KindOf(id) == objs[id].kind

\* The lines of standard output that show a message.
LogLines == SelectSeq(stdout, LAMBDA l : l.kind = "log")

\* The first lines of the entries on standard output: the lines whose
\* prefix is not blanked.
EntryHeads == SelectSeq(LogLines, LAMBDA l : l.time = ClockTime)

\* A sink reported a failure with this text.
Reported(text) ==
    \E i \in 1..Len(stdout) : stdout[i].kind = "report" /\ stdout[i].text = text

\* The array in the file still starts with the entries it held before the
\* call, and the entries that follow them.
KeepsPrior ==
    /\ Len(Entries(call.before)) <= Len(Entries(file))
    /\ SubSeq(Entries(file), 1, Len(Entries(call.before))) = Entries(call.before)
Appended ==
    SubSeq(Entries(file), Len(Entries(call.before)) + 1, Len(Entries(file)))

\* The call left no trace in any output.
NoOutput == stdout = <<>> /\ file = call.before /\ tracked = <<>>

\* The file held nothing or a JSON array when the call was made.
HeldArray(f) ==
    \/ f.kind \in {"empty", "space"}
    \/ f.kind \in {"json", "compact"} /\ f.doc.t = "array"

\* Nothing of the environment fails for the sink of the call.
WorkingSink ==
    /\ env = "ok"
    /\ KindOf(call.id) = "FileLogger" => HeldArray(call.before)

\* The call shows in the output of its sink.
Emitted ==
    CASE KindOf(call.id) = "ConsoleLogger" -> LogLines # <<>>
      [] KindOf(call.id) = "FileLogger" -> KeepsPrior /\ Appended # <<>>
      [] KindOf(call.id) = "WandbLogger" -> tracked # <<>>

\* A message with something to show: any but the empty dict.
HasContent(m) == ~(IsDict(m) /\ m.items = <<>>)

\* The level of the call is at or above the threshold of its logger.
AtOrAbove ==
    \/ call.level.k = "none"
    \/ call.level.k = "member" /\ props[call.level].priority >= min_priority[call.id]
    \/ call.level.k = "str"
       /\ props[Member("INFO")].priority >= min_priority[call.id]

-----------------------------------------------------------------------------
(* The claims on the sinks, under Spec. *)

C1Case ==
    /\ IsLog
    /\ call.level \in BuiltinLevels
    /\ call.msgs # <<>>
    /\ ~IsMixed(call.msgs)

\* C1: on every sink with minimum priority T, a valid message logged at a
\* built-in level L is emitted if and only if priority(L) >= T: below T the
\* call produces no output at all, and at T or above (at exactly T too) a
\* message with content shows in the output of a sink whose environment
\* works.
C1_EmittedIffAtOrAbove ==
    C1Case =>
        /\ call.exc = "none"
        /\ props[call.level].priority < min_priority[call.id] => NoOutput
        /\ (/\ props[call.level].priority >= min_priority[call.id]
            /\ WorkingSink
            /\ \A i \in 1..Len(call.msgs) : HasContent(call.msgs[i]))
           => Emitted

\* A message at exactly the threshold of a FileLogger was stored.
C1_Witness ==
    /\ C1Case
    /\ KindOf(call.id) = "FileLogger"
    /\ props[call.level].priority = min_priority[call.id]
    /\ Len(Appended) = 1

\* C7: on every sink, a call whose inputs hold a dict and a non-dict raises
\* TypeError to the caller whatever the level and the threshold, and leaves
\* no output: nothing printed, the file unchanged, nothing tracked.
C7_MixedInputsRaise ==
    (IsLog /\ IsMixed(call.msgs)) => (call.exc = "TypeError" /\ NoOutput)

\* A mixed call below the threshold of a FileLogger raised.
C7_Witness ==
    /\ IsLog
    /\ IsMixed(call.msgs)
    /\ KindOf(call.id) = "FileLogger"
    /\ call.level.k = "member"
    /\ props[call.level].priority < min_priority[call.id]
    /\ call.exc = "TypeError"

RECURSIVE SpaceJoined(_)
\* The string forms of the inputs with one space between neighbours.
SpaceJoined(msgs) ==
    IF Len(msgs) = 1 THEN Str(msgs[1])
    ELSE Str(msgs[1]) \o " " \o SpaceJoined(Tail(msgs))

\* The message and the level name an element of the file array carries.
MessageOf(entry) == entry.items[Len(entry.items)].v
CarriesLevel(entry, level) ==
    IF level.k = "none"
    THEN \A j \in 1..Len(entry.items) : entry.items[j].k # "level"
    ELSE \E j \in 1..Len(entry.items) :
            entry.items[j].k = "level" /\ entry.items[j].v = PyStr(LevelName(level))
Keys(d) == [j \in 1..Len(d.items) |-> d.items[j].k]

C8Case ==
    /\ IsLog
    /\ Len(call.msgs) >= 2
    /\ ~IsMixed(call.msgs)
    /\ AtOrAbove
    /\ WorkingSink

\* The one entry of k joined inputs, on each sink.
OneJoinedEntry ==
    CASE KindOf(call.id) = "ConsoleLogger" ->
            /\ Len(LogLines) = 1
            /\ LogLines[1].text = SpaceJoined(call.msgs)
            /\ LogLines[1].tag = LevelStr(call.level)
      [] KindOf(call.id) = "FileLogger" ->
            /\ KeepsPrior
            /\ Len(Appended) = 1
            /\ MessageOf(Appended[1]) = PyStr(SpaceJoined(call.msgs))
            /\ CarriesLevel(Appended[1], call.level)
      [] KindOf(call.id) = "WandbLogger" ->
            /\ Len(tracked) = 1
            /\ tracked[1].items[1].v = PyStr(SpaceJoined(call.msgs))

\* The elements a FileLogger appended: one per dict, in argument order, each
\* with the level of the call.
OnePerDictInFile ==
    /\ KeepsPrior
    /\ Len(Appended) = Len(call.msgs)
    /\ \A i \in 1..Len(call.msgs) :
          /\ Keys(MessageOf(Appended[i])) = Keys(call.msgs[i])
          /\ CarriesLevel(Appended[i], call.level)

\* C8 as the specification states it: k >= 2 inputs that pass the filter
\* give one entry of the inputs joined by single spaces when none is a
\* dict, and exactly k entries, one per input, when all are dicts.
C8_OneEntryPerInput ==
    C8Case =>
        IF AllText(call.msgs) THEN OneJoinedEntry
        ELSE CASE KindOf(call.id) = "ConsoleLogger" ->
                    Len(EntryHeads) = Len(call.msgs)
               [] KindOf(call.id) = "FileLogger" -> OnePerDictInFile
               [] KindOf(call.id) = "WandbLogger" -> Len(tracked) = Len(call.msgs)

\* C8: k >= 2 inputs that pass the filter give one entry of the inputs
\* joined by single spaces when none is a dict; when all are dicts, the
\* FileLogger appends k elements in argument order with the level of the
\* call, the WandbLogger tracks the k dicts as they are (without the level),
\* and the ConsoleLogger prints one entry per dict that is not empty, tagged
\* with the level: an empty dict prints nothing.
C8_JoinedOrOnePerDict ==
    C8Case =>
        IF AllText(call.msgs) THEN OneJoinedEntry
        ELSE CASE KindOf(call.id) = "ConsoleLogger" ->
                    /\ Len(EntryHeads)
                         = Len(SelectSeq(call.msgs, LAMBDA m : m.items # <<>>))
                    /\ \A i \in 1..Len(EntryHeads) :
                          EntryHeads[i].tag = LevelStr(call.level)
               [] KindOf(call.id) = "FileLogger" -> OnePerDictInFile
               [] KindOf(call.id) = "WandbLogger" -> tracked = call.msgs

\* An empty dict and a dict with keys were logged to the console together.
C8_Witness ==
    /\ C8Case
    /\ KindOf(call.id) = "ConsoleLogger"
    /\ \E i \in 1..Len(call.msgs) : call.msgs[i] = EmptyDict
    /\ Len(EntryHeads) = 1

-----------------------------------------------------------------------------
(* The claims on the file sink, under SpecFile. *)

\* C5: starting from a fresh file, after N single-message calls that pass
\* the filter and do not fail, the file holds a JSON array of exactly N
\* elements in call order, element i carrying the message of call i as it
\* was given, its level name when a level was given, and a timestamp.
C5_RoundTrip ==
    hist.clean =>
        /\ hist.entries # <<>> => (file.kind = "json" /\ file.doc.t = "array")
        /\ Len(Entries(file)) = Len(hist.entries)
        /\ \A i \in 1..Len(hist.entries) :
              Entries(file)[i] = LogEntry(hist.entries[i].level, hist.entries[i].msg)

\* The write step of the call failed; its rollback failed too.
WriteFailed == Reported("[FileLogger] Exception thrown while logging to a file")
RollbackFailed ==
    Reported("[FileLogger] Exception thrown while rolling back the changes")

\* A call that makes one append whose write step failed after the read
\* phase accepted the file.
C6Case ==
    /\ IsLog
    /\ Len(call.msgs) = 1 \/ AllText(call.msgs)
    /\ WriteFailed
    /\ HeldArray(call.before)

\* C6 as the specification states it: when the write step fails after the
\* read phase succeeded, the contents of the file after the call equal its
\* contents before the call.
C6_FileAsBefore == C6Case => file = call.before

\* C6: when the write step fails after the read phase succeeded and the
\* rollback write succeeds, the file holds the array it held before the
\* call as json.dump(indent=4) writes it: the text is the same if the
\* logger wrote it, an empty or whitespace file now holds [], and another
\* layout of the array is laid out anew.  When the rollback fails as well,
\* the file is as it was or holds a cut-off text.
C6_RollbackRestoresArray ==
    C6Case =>
        IF RollbackFailed
        THEN file = call.before \/ file.kind = "partial"
        ELSE /\ file.kind = "json"
             /\ file.doc.t = "array"
             /\ Entries(file) = Entries(call.before)
             /\ (call.before.kind = "json" => file = call.before)

\* A write to a file that held an entry failed and was rolled back.
C6_Witness ==
    /\ C6Case
    /\ ~RollbackFailed
    /\ Len(Entries(call.before)) >= 1
    /\ file = call.before

-----------------------------------------------------------------------------
(* The claims on the MultiLogger, under SpecMulti. *)

\* The mask in effect for the call, and the loggers of the root it leaves:
\* a class in the mask excludes the loggers of that class (and the base
\* class Logger excludes them all).
MaskInEffect ==
    IF call.mask.none THEN objs["root"].default_mask ELSE call.mask.types
NotMasked ==
    SelectSeq(objs["root"].loggers,
              LAMBDA c : KindOf(c) \notin MaskInEffect /\ "Logger" \notin MaskInEffect)

\* The calls the root made to its loggers, in the order it made them.
Forwarded == SelectSeq(call.trace, LAMBDA t : t.by = "root")

\* C2: in MultiLogger.log, an exception raised by one sink does not keep
\* the later non-masked sinks from being invoked: every non-masked sink is
\* invoked for the call.
C2_FailureIsolation ==
    (IsLog /\ call.id = "root") =>
        \A i \in 1..Len(NotMasked) :
            \E j \in 1..Len(Forwarded) : Forwarded[j].to = NotMasked[i]

\* C3: the sinks a MultiLogger.log call invokes are exactly the owned sinks
\* whose kind is not in the effective mask, each once, in collection order,
\* with the same messages and level; the effective mask is the mask of the
\* call when one is passed (an empty one too) and the default mask when it
\* is omitted.
C3_ExactlyTheNotMasked ==
    (IsLog /\ call.id = "root") =>
        /\ [j \in 1..Len(Forwarded) |-> Forwarded[j].to] = NotMasked
        /\ \A j \in 1..Len(Forwarded) :
              Forwarded[j].msgs = call.msgs /\ Forwarded[j].level = call.level

\* C4: after a MultiLogger is constructed and after any sequence of calls
\* of set_min_priority on MultiLoggers (with a LogLevel or an integer), the
\* minimum priority of every logger a MultiLogger owns, those of nested
\* MultiLoggers too, equals the minimum priority of that MultiLogger,
\* whatever thresholds the loggers were created with.  (No owned logger was
\* given a threshold by a call of its own.)
C4_ThresholdsInSync ==
    ~hist.direct =>
        \A m \in DOMAIN objs : \A i \in 1..Len(objs[m].loggers) :
            min_priority[objs[m].loggers[i]] = min_priority[m]

\* The root, which holds the nested MultiLogger, was set to LogLevel.ERROR.
C4_Witness ==
    /\ call.op = "set_min_priority"
    /\ call.id = "root"
    /\ call.arg = [level |-> Member("ERROR")]
    /\ ~hist.direct
    /\ \E i \in 1..Len(objs["root"].loggers) : objs["root"].loggers[i] = "inner"
    /\ min_priority["wandb"] = MaxSize

-----------------------------------------------------------------------------
(* The claims on the registry, under SpecRegistry. *)

\* The level is a member of LogLevel that register_level added.
IsCustom(level) == level.k = "member" /\ level.name \notin DOMAIN BuiltinMembers

\* The properties the level was registered with.
RegisteredAs(level) == props[StrKey(members[level.name])]

\* C9: after register_level(name, properties) for a new name of any letter
\* case, a message logged with the new member does not fail with a lookup
\* error, is emitted if and only if the registered priority is at or above
\* the threshold of the logger, and the console takes the colour of its tag
\* from the registered properties.
C9_RegisteredLevelUsable ==
    (IsLog /\ IsCustom(call.level)) =>
        /\ call.exc = "none"
        /\ Emitted <=> RegisteredAs(call.level).priority >= min_priority[call.id]
        /\ \A i \in 1..Len(EntryHeads) :
              EntryHeads[i].color = RegisteredAs(call.level).color

\* C10: registering a name that is in use (a built-in name or one that was
\* registered) raises no error and overwrites the colour and the priority
\* of that level: after every register_level call, the properties looked
\* up for the member of that name are those of the call.
C10_LastRegistrationWins ==
    call.op = "register_level" =>
        /\ call.exc = "none"
        /\ Member(Upper(call.name)) \in DOMAIN props
        /\ props[Member(Upper(call.name))] = call.properties

-----------------------------------------------------------------------------
(* OptionalLogger: optional_logger.py.  An OptionalLogger is an object of  *)
(* kind "OptionalLogger" whose loggers holds the wrapped logger, or        *)
(* nothing when it wraps None.                                             *)

\* self.__internal_wrapped_logger__ is not None
Wraps(os, id) == os[id].loggers # <<>>

\* The operations of the Logger interface, which every Logger has.
LoggingMethods == {"log", "__call__", "info", "warn", "warning", "error", "debug"}

\* lambda *_: None, called with keyword arguments of the names kw: a lambda
\* that takes positional arguments only raises TypeError for any keyword.
NoOpLambda(w, kw) == IF kw # {} THEN Raise(w, "TypeError") ELSE w

\* The level a method of Logger logs with: log and __call__ pass the level
\* of the caller on (None unless given), the others fix it.
MethodLevel(method, level, kw) ==
    CASE method \in {"log", "__call__"} -> IF "level" \in kw THEN level ELSE NoLevel
      [] method = "info" -> Member("INFO")
      [] method \in {"warn", "warning"} -> Member("WARN")
      [] method = "error" -> Member("ERROR")
      [] method = "debug" -> Member("DEBUG")

\* logger.<method>(*msgs, **kwargs) on a logger that is not an
\* OptionalLogger: every method ends in log with the level of the method.
DirectCall(os, ps, mp, id, w, e, method, msgs, level, mask, kw) ==
    Invoke(os, ps, mp, id, w, e, msgs, MethodLevel(method, level, kw),
           IF "mask" \in kw THEN mask ELSE NoMask)

\* optional.<method>(*msgs, **kwargs): __getattribute__ gives the bound
\* method of the wrapped logger, or the lambda when getattr on None raises
\* AttributeError.  Calling the object goes through Logger.__call__ to
\* self.log, which __getattribute__ answers in the same way.
OptionalCall(os, ps, mp, id, w, e, method, msgs, level, mask, kw) ==
    IF Wraps(os, id)
    THEN DirectCall(os, ps, mp, os[id].loggers[1], w, e, method, msgs, level, mask, kw)
    ELSE NoOpLambda(w, kw)

\* optional.set_min_priority(arg), the argument given by position or by
\* keyword (kw holds the name of the keyword).
OptionalSetPriority(os, ps, mp, id, arg, kw) ==
    IF Wraps(os, id) THEN SetPriority(os, ps, mp, os[id].loggers[1], arg)
    ELSE [mp |-> mp, exc |-> IF kw # {} THEN "TypeError" ELSE "none"]

\* What a call returned with: the outputs and the exception.
Outcome(w) == [file |-> w.file, out |-> w.out, tracked |-> w.tracked, exc |-> w.exc]

\* optional.<method>(*msgs, **kwargs) on the OptionalLogger id.  direct is
\* what the same call on the wrapped logger gives.
OptionalLog(id, method, msgs, level, mask, kw) ==
    LET w0 == World(file, <<>>, <<>>)
        w == OptionalCall(objs, props, min_priority, id, w0, env, method, msgs,
                          level, mask, kw)
        d == IF Wraps(objs, id)
             THEN DirectCall(objs, props, min_priority, objs[id].loggers[1], w0, env,
                             method, msgs, level, mask, kw)
             ELSE w0
    IN  /\ call = Idle
        /\ file' = w.file
        /\ stdout' = w.out
        /\ tracked' = w.tracked
        /\ call' = [op |-> "optional", id |-> id, method |-> method, msgs |-> msgs,
                    kw |-> kw, exc |-> w.exc, before |-> file,
                    thresholds |-> min_priority, direct |-> Outcome(d)]
        /\ UNCHANGED <<members, props, objs, min_priority, env, hist>>

\* optional.set_min_priority(arg) on the OptionalLogger id.
OptionalSet(id, arg, kw) ==
    LET r == OptionalSetPriority(objs, props, min_priority, id, arg, kw)
    IN  /\ call = Idle
        /\ min_priority' = r.mp
        /\ stdout' = <<>>
        /\ tracked' = <<>>
        /\ call' = [op |-> "optional", id |-> id, method |-> "set_min_priority",
                    msgs |-> <<>>, kw |-> kw, exc |-> r.exc, before |-> file,
                    thresholds |-> min_priority,
                    direct |-> [file |-> file, out |-> <<>>, tracked |-> <<>>,
                                exc |-> r.exc]]
        /\ UNCHANGED <<members, props, objs, file, env, hist>>

-----------------------------------------------------------------------------
(* An OptionalLogger on a sink or on None: SpecOptional. *)


\* OptionalLogger(logger) with logger a sink or None.
InitOptional ==
    \E kind \in SinkKinds, wrapped \in {<<>>, <<"sink">>} :
        /\ members = BuiltinMembers
        /\ props = BuiltinProperties
        /\ objs = ("sink" :> Obj(kind, <<>>, {}))
                  @@ ("opt" :> Obj("OptionalLogger", wrapped, {}))
        /\ min_priority = ("sink" :> PriorityOf(BuiltinProperties, [level |-> Member("INFO")]))
        /\ file = FreshFile
        /\ env = "ok"
        /\ stdout = CtorOutput(kind)
        /\ tracked = <<>>
        /\ call = Idle
        /\ hist = NoHist(FreshFile)

\* log and the call of the object take level= and mask=; the methods that
\* fix the level take mask=.
OptionalLogs ==
    /\ FileCap(MaxPrior)
    /\ \E method \in LoggingMethods, msgs \in Tuples({TextA, PlainDict}, {<<TextA, TextA>>}),
          level \in {Member("INFO"), Member("DEBUG")}, kw \in SUBSET {"level", "mask"} :
            /\ method \notin {"log", "__call__"} => "level" \notin kw
            /\ OptionalLog("opt", method, msgs, level, Mask({}), kw)

OptionalSets ==
    /\ FileCap(MaxPrior)
    /\ \E arg \in PriorityArgs(BuiltinLevels), kw \in {{}, {"value"}} :
            OptionalSet("opt", arg, kw)

NextOptional == OptionalLogs \/ OptionalSets \/ Return

SpecOptional == InitOptional /\ [][NextOptional]_vars

\* C11: an OptionalLogger that wraps no logger returns from every logging
\* operation (log, info, warn/warning, error, debug, set_min_priority, the
\* call of the object), with level= and mask= too, without any effect and
\* without raising; one that wraps a logger gives every operation the
\* effect and the result of the same call on the wrapped logger.
C11_OptionalIsTransparent ==
    call.op = "optional" =>
        IF Wraps(objs, call.id)
        THEN /\ call.exc = call.direct.exc
             /\ file = call.direct.file
             /\ stdout = call.direct.out
             /\ tracked = call.direct.tracked
        ELSE /\ call.exc = "none"
             /\ file = call.before
             /\ stdout = <<>>
             /\ tracked = <<>>
             /\ min_priority = call.thresholds

-----------------------------------------------------------------------------
(* Further claims on the sinks, under Spec. *)

\* One dict with a key whose value is None was logged and passed the filter
\* of a sink whose environment works.
C12Case ==
    /\ IsLog
    /\ Len(call.msgs) = 1
    /\ IsDict(call.msgs[1])
    /\ \E j \in 1..Len(call.msgs[1].items) : call.msgs[1].items[j].v = PyNone
    /\ AtOrAbove
    /\ WorkingSink

\* C12: for a dict message with a key whose value is None, the console
\* prints that key as a bare line with no value after it, and the file
\* stores that key in the message with a JSON null.
C12_NoneIsHeaderAndNull ==
    C12Case =>
        \A j \in 1..Len(call.msgs[1].items) :
            call.msgs[1].items[j].v = PyNone =>
                CASE KindOf(call.id) = "ConsoleLogger" ->
                        /\ Len(LogLines) = Len(call.msgs[1].items)
                        /\ LogLines[j].text = call.msgs[1].items[j].k
                  [] KindOf(call.id) = "FileLogger" ->
                        /\ Len(Appended) = 1
                        /\ MessageOf(Appended[1]).items[j].k = call.msgs[1].items[j].k
                        /\ MessageOf(Appended[1]).items[j].v = PyNone
                  [] OTHER -> TRUE

\* The entries the call left carry no level: no tag on the console, no
\* "level" key in the file, the key "message" for a text in the tracker.
WithoutLevel ==
    CASE KindOf(call.id) = "ConsoleLogger" ->
            \A i \in 1..Len(LogLines) : LogLines[i].tag = "" /\ LogLines[i].color = ""
      [] KindOf(call.id) = "FileLogger" ->
            \A i \in 1..Len(Appended) : CarriesLevel(Appended[i], NoLevel)
      [] KindOf(call.id) = "WandbLogger" ->
            AllText(call.msgs) =>
                \A i \in 1..Len(tracked) : Keys(tracked[i]) = <<"message">>

C13Case ==
    /\ IsLog
    /\ call.level = NoLevel
    /\ call.msgs # <<>>
    /\ ~IsMixed(call.msgs)

\* C13: a valid message logged with level None is emitted by every sink for
\* every minimum priority, the priority of ERROR and above too (by a sink
\* whose environment works, for a message with content), and it is stored
\* and rendered without a level field or tag.
C13_NoLevelAlwaysEmitted ==
    C13Case =>
        /\ call.exc = "none"
        /\ WithoutLevel
        /\ (WorkingSink /\ \A i \in 1..Len(call.msgs) : HasContent(call.msgs[i]))
           => Emitted

\* A message without a level was stored by a FileLogger whose threshold is
\* above the priority of ERROR.
C13_Witness ==
    /\ C13Case
    /\ KindOf(call.id) = "FileLogger"
    /\ min_priority[call.id] > props[Member("ERROR")].priority
    /\ Len(Appended) = 1

\* The entries the call left carry the string level uppercased: the tag of
\* the console in green, the "level" of the file, the key of a text in the
\* tracker.
WithGivenName ==
    LET name == Upper(call.level.name) IN
    CASE KindOf(call.id) = "ConsoleLogger" ->
            \A i \in 1..Len(EntryHeads) :
                /\ EntryHeads[i].tag = "[" \o name \o "] "
                /\ EntryHeads[i].color = "green"
      [] KindOf(call.id) = "FileLogger" ->
            \A i \in 1..Len(Appended) :
                \E j \in 1..Len(Appended[i].items) :
                    /\ Appended[i].items[j].k = "level"
                    /\ Appended[i].items[j].v = PyStr(name)
      [] KindOf(call.id) = "WandbLogger" ->
            AllText(call.msgs) =>
                \A i \in 1..Len(tracked) : Keys(tracked[i]) = <<name>>

C14Case ==
    /\ IsLog
    /\ call.level.k = "str"
    /\ call.msgs # <<>>
    /\ ~IsMixed(call.msgs)

\* C14: a message logged with a string level is filtered with the priority
\* of the built-in INFO (emitted iff that priority >= the threshold of the
\* logger), and when emitted its level is rendered and stored as the given
\* string uppercased.
C14_StringLevelAsInfo ==
    C14Case =>
        /\ call.exc = "none"
        /\ props[Member("INFO")].priority < min_priority[call.id] => NoOutput
        /\ props[Member("INFO")].priority >= min_priority[call.id] =>
              /\ WithGivenName
              /\ (WorkingSink /\ \A i \in 1..Len(call.msgs) : HasContent(call.msgs[i]))
                 => Emitted

\* A message with the level "note" was stored by a FileLogger whose
\* threshold is the priority of INFO.
C14_Witness ==
    /\ C14Case
    /\ KindOf(call.id) = "FileLogger"
    /\ min_priority[call.id] = props[Member("INFO")].priority
    /\ Len(Appended) = 1
    /\ CarriesLevel(Appended[1], call.level)

-----------------------------------------------------------------------------
(* Further claims on the registry, under SpecRegistry. *)

\* C15: in every state of the registry, the built-in set and after any
\* sequence of register_level calls, the built-in priorities are ordered
\* DEBUG < INFO < WARN < ERROR, and the priority of ERROR is at or above
\* the priority of every registered level (every priority of the model is
\* finite).
C15_ErrorIsTheMaximum ==
    /\ props[Member("DEBUG")].priority < props[Member("INFO")].priority
    /\ props[Member("INFO")].priority < props[Member("WARN")].priority
    /\ props[Member("WARN")].priority < props[Member("ERROR")].priority
    /\ \A key \in DOMAIN props :
          props[Member("ERROR")].priority >= props[key].priority

-----------------------------------------------------------------------------
(* serialize on JSON-representable values: SpecSerialize. *)

\* True
PyTrue == [t |-> "bool", s |-> "True", items |-> <<>>]

\* The scalars: a string, an int, a float, a bool and None.
Leaves == {TextA, IntOne, PyFloat("0.5"), PyTrue, PyNone}

RECURSIVE JsonValues(_)
\* The values nested to depth d: the scalars, the empty list and dict, and
\* the lists and str-keyed dicts of one or two elements, the first a value
\* of depth d - 1 and the second a scalar.
JsonValues(d) ==
    IF d = 0 THEN Leaves
    ELSE Leaves \cup {PyList(<<>>), PyDict(<<>>)}
         \cup {PyList(<<x>>) : x \in JsonValues(d - 1)}
         \cup {PyList(<<x, l>>) : x \in JsonValues(d - 1), l \in Leaves}
         \cup {PyDict(<<Item("k", x)>>) : x \in JsonValues(d - 1)}
         \cup {PyDict(<<Item("k", x), Item("j", l)>>) : x \in JsonValues(d - 1), l \in Leaves}

InitSerialize == SinkInit("ConsoleLogger", [level |-> Member("INFO")], FreshFile)

\* once = serialize(value)
Serialize(v) ==
    /\ call = Idle
    /\ ~SerializeRaises(v)
    /\ call' = [op |-> "serialize", value |-> v, once |-> serialize(v)]
    /\ stdout' = <<>>
    /\ tracked' = <<>>
    /\ UNCHANGED <<members, props, objs, min_priority, file, env, hist>>

\* twice = serialize(once)
SerializeAgain ==
    /\ call # Idle
    /\ call.op = "serialize"
    /\ call' = [op |-> "serialized", value |-> call.value, once |-> call.once,
                twice |-> serialize(call.once)]
    /\ UNCHANGED <<members, props, objs, min_priority, file, env, stdout, tracked, hist>>

Serializes == \E v \in JsonValues(MaxDepth) : Serialize(v)

NextSerialize == Serializes \/ SerializeAgain \/ Return

SpecSerialize == InitSerialize /\ [][NextSerialize]_vars

RECURSIVE SameShape(_, _)
\* r has the elements of v in their order and the keys of v in their
\* order, and a string where v has a scalar.
SameShape(v, r) ==
    CASE v.t = "list" ->
            /\ r.t = "list"
            /\ Len(r.items) = Len(v.items)
            /\ \A i \in 1..Len(v.items) : SameShape(v.items[i], r.items[i])
      [] v.t = "dict" ->
            /\ r.t = "dict"
            /\ Keys(r) = Keys(v)
            /\ \A i \in 1..Len(v.items) : SameShape(v.items[i].v, r.items[i].v)
      [] OTHER -> r.t = "str"

\* C16: serialize is idempotent on the values built from strings, numbers,
\* booleans, None, lists and str-keyed dicts: serialize(serialize(v)) =
\* serialize(v), and the order of the elements, the keys and their order
\* are kept.
C16_SerializeIdempotent ==
    (call # Idle /\ call.op \in {"serialize", "serialized"}) =>
        /\ SameShape(call.value, call.once)
        /\ call.op = "serialized" => call.twice = call.once

\* A list in a dict with a second key was serialized twice.
C16_Witness ==
    /\ call # Idle
    /\ call.op = "serialized"
    /\ call.value = PyDict(<<Item("k", PyList(<<TextA, IntOne>>)), Item("j", PyNone)>>)
    /\ call.twice = call.once

-----------------------------------------------------------------------------
(* Two FileLogger.log calls on one file at the same time: SpecRace.  Each  *)
(* call logs one message that passes the filter and goes through the steps *)
(* of file_logger.py:87-127 on its own: it reads the file, opens it for    *)
(* writing (which truncates it), and writes the array and closes.  call    *)
(* holds the position (pc) and prev_logs (prev) of either call.            *)

Callers == {1, 2}
Other(i) == 3 - i

\* new_logs if the entry of a caller that is done were merged in.
RaceLogsMerged(c, i) ==
    PyList(c.th[i].prev.items
           \o (IF c.th[Other(i)].pc = "done" /\ ~c.th[Other(i)].reported
               THEN <<LogEntry(c.th[Other(i)].level, serialize(c.th[Other(i)].msg))>>
               ELSE <<>>)
           \o <<LogEntry(c.th[i].level, serialize(c.th[i].msg))>>)

\* The new_logs of caller i: prev_logs and the entry of its message.
RaceLogs(c, i) ==
    PyList(Append(c.th[i].prev.items, LogEntry(c.th[i].level, serialize(c.th[i].msg))))

\* The two calls are made.
RaceStart(m1, l1, m2, l2) ==
    /\ call = Idle
    /\ call' = [op |-> "race", before |-> file,
                th |-> [i \in Callers |->
                          [pc |-> "start", prev |-> PyList(<<>>), early |-> FALSE,
                           reported |-> FALSE,
                           msg |-> IF i = 1 THEN m1 ELSE m2,
                           level |-> IF i = 1 THEN l1 ELSE l2]]]
    /\ stdout' = <<>>
    /\ tracked' = <<>>
    /\ UNCHANGED <<members, props, objs, min_priority, file, env, hist>>

\* Lines 87-110: caller i reads the file as it is now.  early: the other
\* caller has not opened the file for writing yet.
RaceRead(i) ==
    /\ call # Idle
    /\ call.op = "race"
    /\ call.th[i].pc = "start"
    /\ IF ~IsBlank(file) /\ DecodeFails(file)
       THEN /\ call' = [call EXCEPT !.th[i].pc = "done", !.th[i].reported = TRUE]
            /\ stdout' = Append(stdout, Report("[WARNING]", "yellow",
                 "[FileLogger] Could not decode existing logs, new logs will not be appended to the file."))
       ELSE /\ call' = [call EXCEPT !.th[i].pc = "write",
                                    !.th[i].prev = PrevLogs(file),
                                    !.th[i].early = call.th[Other(i)].pc \in {"start", "write"}]
            /\ UNCHANGED stdout
    /\ UNCHANGED <<members, props, objs, min_priority, file, env, tracked, hist>>

\* Line 125: open(path, "w") truncates the file.
RaceOpen(i) ==
    /\ call # Idle
    /\ call.op = "race"
    /\ call.th[i].pc = "write"
    /\ call' = [call EXCEPT !.th[i].pc = "opened"]
    /\ file' = Text("empty", NoDoc)
    /\ UNCHANGED <<members, props, objs, min_priority, env, stdout, tracked, hist>>

\* Line 127: a part of the text of json.dump reaches the file before the
\* file is closed.
RaceFlush(i) ==
    /\ call # Idle
    /\ call.op = "race"
    /\ call.th[i].pc = "opened"
    /\ file.kind = "empty"
    /\ file' = Text("partial", NoDoc)
    /\ UNCHANGED <<members, props, objs, min_priority, env, stdout, tracked, call, hist>>

\* Lines 126-127: the array is written from offset 0 and the file closed.
\* If the other caller wrote a text since this one opened the file, the
\* text of this caller overwrites the start of it: the file holds the text
\* of this caller, or that text and what is left of the other.
RaceClose(i) ==
    /\ call # Idle
    /\ call.op = "race"
    /\ call.th[i].pc = "opened"
    /\ call' = [call EXCEPT !.th[i].pc = "done"]
    /\ \/ file' = JsonDump(RaceLogs(call, i))
       \/ /\ file.kind = "json"
          /\ file' = Text("garbage", NoDoc)
    /\ UNCHANGED <<members, props, objs, min_priority, env, stdout, tracked, hist>>

BothDone == call # Idle /\ call.op = "race" /\ \A i \in Callers : call.th[i].pc = "done"

\* Both calls have returned.
RaceReturn == BothDone /\ Return

InitRace ==
    \E f \in {FreshFile, JsonDump(OneEntry)} : SinkInit("FileLogger", [level |-> Member("INFO")], f)

RaceStarts ==
    /\ FileCap(MaxFilePrior)
    /\ \E l1, l2 \in {NoLevel, Member("INFO")} : RaceStart(TextA, l1, PyStr("b"), l2)

NextRace ==
    \/ RaceStarts
    \/ \E i \in Callers : RaceRead(i)
    \/ \E i \in Callers : RaceOpen(i)
    \/ \E i \in Callers : RaceFlush(i)
    \/ \E i \in Callers : RaceClose(i)
    \/ RaceReturn

SpecRace == InitRace /\ [][NextRace]_vars

\* Both calls have returned and neither reported anything.
BothQuiet == BothDone /\ \A i \in Callers : ~call.th[i].reported

\* C17: two FileLogger.log calls on one file at the same time can lose an
\* entry: when both read the file before either opens it for writing and
\* both return without reporting an error, the file holds at most one
\* entry more than before, so fewer entries than calls, or a text that is
\* not an array at all.
C17_ConcurrentCallsLoseAnEntry ==
    (BothQuiet /\ \A i \in Callers : call.th[i].early) =>
        Len(Entries(file)) <= Len(Entries(call.before)) + 1

\* Both calls returned without a report and the file holds the entries it
\* held and one new entry.
C17_Witness ==
    /\ BothQuiet
    /\ file.kind = "json"
    /\ file.doc.t = "array"
    /\ Len(Entries(file)) = Len(Entries(call.before)) + 1

-----------------------------------------------------------------------------
(* FileLogger.log stopping before its write step. *)

NotSerializable ==
    Reported("[FileLogger] Could not convert the message to a JSON serializable format")
ReadFailed ==
    Reported("[FileLogger] Exception thrown while reading from the logging file")
NotDecoded ==
    Reported("[FileLogger] Could not decode existing logs, new logs will not be appended to the file.")

\* The filter dropped the messages of the call.
Dropped == IsLog /\ call.exc = "none" /\ ~AtOrAbove

\* A call of FileLogger.log that stopped before its write step: the filter
\* dropped it, or it was for one entry and stopped at the serialization, at
\* the reading or at the decoding.
C18Case ==
    /\ IsLog
    /\ KindOf(call.id) = "FileLogger"
    /\ call.exc = "none"
    /\ \/ Dropped
       \/ /\ Len(call.msgs) = 1 \/ AllText(call.msgs)
          /\ NotSerializable \/ ReadFailed \/ NotDecoded

\* C18: when FileLogger.log stops before its write step (dropped by the
\* filter, message not serializable, reading fails, content not decodable)
\* the file holds exactly what it held before the call.
C18_StoppedCallLeavesFile == C18Case => file = call.before

\* A call that found a file it could not decode, warned and left it.
C18_Witness ==
    /\ C18Case
    /\ NotDecoded
    /\ call.before.kind = "garbage"
    /\ file = call.before

-----------------------------------------------------------------------------
(* What FileLogger.log lets through to its caller. *)

\* A call of FileLogger.log whose messages passed the validation.
C19Case ==
    /\ IsLog
    /\ KindOf(call.id) = "FileLogger"
    /\ call.msgs # <<>>
    /\ ~IsMixed(call.msgs)

\* C19: once the messages have passed validation, FileLogger.log raises
\* nothing to its caller, whatever the file holds and whatever fails in
\* the write step or in the rollback.
C19_NothingPropagates == C19Case => call.exc = "none"

====
